---- MODULE Spec2Model ----
(***************************************************************************)
(* Model of the log-update renderer of ink (src/src/log-update.ts): the    *)
(* standard and the incremental renderer, the output sink they write to,   *)
(* and a terminal that interprets what was written.                        *)
(***************************************************************************)
EXTENDS Integers, Sequences, FiniteSets, TLC

\* ---------------------------------------------------------------- bounds
MaxLen == 2          \* longest string handed to render / sync
MaxCol == 3          \* widest row of the modelled terminal, in cells

NL == "\n"
Letters == {"a", "b"}
Alphabet == Letters \cup {NL}
Blank == " "

\* every string of at most MaxLen characters, as a sequence of characters
Strs == UNION {[1..n -> Alphabet] : n \in 0..MaxLen}

\* ------------------------------------------------------- String.split('\n')
RECURSIVE Split(_)
Split(s) ==
    IF s = <<>> THEN << <<>> >>
    ELSE LET rest == Split(Tail(s)) IN
         IF Head(s) = NL THEN << <<>> >> \o rest
         ELSE << <<Head(s)>> \o rest[1] >> \o Tail(rest)

\* ------------------------------------------------ what is written to the sink
\* A write is a sequence of tokens: a character of text, or one control
\* sequence of ansi-escapes.
Ch(c)       == [k |-> "ch", c |-> c, n |-> 0]
EraseLine   == [k |-> "eraseLine", c |-> "", n |-> 0]
CursorUp(n) == [k |-> "cursorUp", c |-> "", n |-> n]
CursorLeft  == [k |-> "cursorLeft", c |-> "", n |-> 0]
CursorNextLine == [k |-> "cursorNextLine", c |-> "", n |-> 0]

Text(s) == [i \in 1..Len(s) |-> Ch(s[i])]

\* ansiEscapes.eraseLines(count): erase the current line and move up, count
\* times (no move after the last erase), then go to the first column.
RECURSIVE EraseLinesFrom(_, _)
EraseLinesFrom(i, count) ==
    IF i >= count THEN <<>>
    ELSE <<EraseLine>> \o (IF i < count - 1 THEN <<CursorUp(1)>> ELSE <<>>)
         \o EraseLinesFrom(i + 1, count)

EraseLines(count) ==
    EraseLinesFrom(0, count) \o (IF count > 0 THEN <<CursorLeft>> ELSE <<>>)

\* ------------------------------------------------------------ the terminal
\* A terminal is rows of cells and a cursor; ok turns FALSE when the cursor
\* would leave the modelled screen. A string of MaxLen characters has at most
\* MaxLen + 1 lines, so the screen has the rows 0..MaxRow.
MaxRow == MaxLen
EmptyScreen == [r \in 0..MaxRow |-> <<>>]
FreshTerminal == [screen |-> EmptyScreen, row |-> 0, col |-> 0, ok |-> TRUE]

RECURSIVE Blanks(_)
Blanks(n) == IF n <= 0 THEN <<>> ELSE <<Blank>> \o Blanks(n - 1)

SetCell(line, col, c) ==
    IF col + 1 <= Len(line) THEN [line EXCEPT ![col + 1] = c]
    ELSE line \o Blanks(col - Len(line)) \o <<c>>

ApplyTok(t, tok) ==
    IF ~t.ok THEN t
    ELSE IF tok.k = "ch" /\ tok.c = NL THEN
        IF t.row < MaxRow THEN [t EXCEPT !.row = t.row + 1, !.col = 0]
        ELSE [t EXCEPT !.ok = FALSE]
    ELSE IF tok.k = "ch" THEN
        IF t.col < MaxCol
        THEN [t EXCEPT !.screen[t.row] = SetCell(t.screen[t.row], t.col, tok.c),
                       !.col = t.col + 1]
        ELSE [t EXCEPT !.ok = FALSE]
    ELSE IF tok.k = "eraseLine" THEN [t EXCEPT !.screen[t.row] = <<>>]
    ELSE IF tok.k = "cursorUp" THEN
        [t EXCEPT !.row = IF t.row - tok.n < 0 THEN 0 ELSE t.row - tok.n]
    ELSE IF tok.k = "cursorLeft" THEN [t EXCEPT !.col = 0]
    ELSE \* cursorNextLine
        IF t.row < MaxRow THEN [t EXCEPT !.row = t.row + 1, !.col = 0]
        ELSE [t EXCEPT !.ok = FALSE]

RECURSIVE ApplyWrite(_, _)
ApplyWrite(t, toks) ==
    IF toks = <<>> THEN t ELSE ApplyWrite(ApplyTok(t, Head(toks)), Tail(toks))

\* ------------------------------------------------------------------ state
VARIABLES
    mode,               \* "standard" or "incremental": which renderer create() returned
    showCursor,         \* the showCursor option given to create()
    previousOutput,     \* let previousOutput
    previousLineCount,  \* let previousLineCount (standard renderer)
    previousLines,      \* let previousLines (incremental renderer)
    hasHiddenCursor,    \* let hasHiddenCursor
    terminal,           \* the terminal behind the sink: screen, cursor row and column,
                        \* followed from the empty terminal while only render is called
    cursorVisible,      \* whether the terminal shows its cursor
    effects,            \* what the last call did, in order: hide, show, write
    lastOp,             \* the last call and its argument
    rendersOnly,        \* history: no clear, done or sync was called so far
    hidesSinceDone,     \* history: hide-cursor calls since creation or the last done()
    wroteSinceDone,     \* history: render wrote since creation or the last done()
    lastStr,            \* history: string of the last sync or effective render, if any
    twin,               \* an incremental renderer given the same calls
    box,                \* a mounted <Box>: its element, layout and scroll state
    paint               \* one compositing pass: scene, sorted paint list, frame

vars == <<mode, showCursor, previousOutput, previousLineCount, previousLines,
          hasHiddenCursor, terminal, cursorVisible, effects, lastOp,
          rendersOnly, hidesSinceDone, wroteSinceDone, lastStr, twin, box, paint>>

\* the variables of the renderer of log-update.ts
logVars == <<mode, showCursor, previousOutput, previousLineCount, previousLines,
             hasHiddenCursor, terminal, cursorVisible, effects, lastOp,
             rendersOnly, hidesSinceDone, wroteSinceDone, lastStr, twin>>

Hide == [k |-> "hide", toks |-> <<>>]
Show == [k |-> "show", toks |-> <<>>]
Write(toks) == [k |-> "write", toks |-> toks]

IsWrite(e) == e.k = "write"
Writes(eff) == SelectSeq(eff, IsWrite)

NoStr == [some |-> FALSE, str |-> <<>>]
SomeStr(s) == [some |-> TRUE, str |-> s]

Op(name, s) == [op |-> name, arg |-> s]

\* the state of a second, incremental renderer right after its creation
FreshTwin == [previousOutput |-> <<>>, previousLines |-> <<>>,
              hasHiddenCursor |-> FALSE, effects |-> <<>>]

\* ------------------------------------------------- <Box>: values and layout
MaxOffset == 3       \* largest offset handed to scrollTo
MaxVersion == 2      \* scroll calls followed per box

\* JavaScript values an offset can take
Num(n) == [t |-> "num", n |-> n]
NaN == [t |-> "nan", n |-> 0]
Undefined == [t |-> "undefined", n |-> 0]
Null == [t |-> "null", n |-> 0]

\* ToNumber, as Math.min and Math.max apply it to their arguments
ToNumber(v) ==
    IF v.t = "null" THEN Num(0)
    ELSE IF v.t = "undefined" THEN NaN
    ELSE v

MathMin(a, b) ==
    IF ToNumber(a).t = "nan" \/ ToNumber(b).t = "nan" THEN NaN
    ELSE IF ToNumber(a).n <= ToNumber(b).n THEN ToNumber(a) ELSE ToNumber(b)

MathMax(a, b) ==
    IF ToNumber(a).t = "nan" \/ ToNumber(b).t = "nan" THEN NaN
    ELSE IF ToNumber(a).n >= ToNumber(b).n THEN ToNumber(a) ELSE ToNumber(b)

\* a DOM node: whether it has a yogaNode, its computed geometry, its children
Node(yoga, left, top, width, height, kids) ==
    [yoga |-> yoga, left |-> left, top |-> top,
     width |-> width, height |-> height, childNodes |-> kids]

\* the child trees a box is laid out with
ChildTrees ==
    { <<>>,
      <<Node(TRUE, 0, 0, 3, 2, <<>>)>>,
      <<Node(TRUE, 0, 0, 2, 1, <<>>), Node(TRUE, 1, 1, 4, MaxOffset + 1, <<>>)>>,
      <<Node(TRUE, 1, 2, 2, 1, <<Node(TRUE, 2, 1, 3, 2, <<>>)>>)>>,
      <<Node(FALSE, 0, 0, 0, 0, <<Node(TRUE, 0, 0, 9, 9, <<>>)>>),
        Node(TRUE, 0, 1, 4, 3, <<>>)>> }

\* the ancestors a box is mounted under, from its parent up to the root
AncestorChains ==
    { <<>>,
      <<Node(TRUE, 1, 2, 9, 9, <<>>)>>,
      <<Node(TRUE, 1, 0, 9, 9, <<>>), Node(TRUE, 2, 1, 9, 9, <<>>)>>,
      <<Node(FALSE, 0, 0, 0, 0, <<>>), Node(TRUE, 2, 1, 9, 9, <<>>)>> }

\* what yoga computed for the element of the box, and the nodes around it
Layout(yogaNode, border, kids, anc) ==
    [yogaNode |-> yogaNode, left |-> 1, top |-> 1, width |-> 3, height |-> 2,
     borderLeft |-> border, borderRight |-> border,
     borderTop |-> border, borderBottom |-> border,
     childNodes |-> kids, ancestors |-> anc]

\* the layouts followed: every child tree with and without a border, every
\* ancestor chain, and an element that was never laid out
Layouts ==
    {Layout(TRUE, b, kids, <<>>) : b \in {0, 1}, kids \in ChildTrees}
    \cup {Layout(TRUE, 0, <<>>, anc) : anc \in AncestorChains}
    \cup {Layout(FALSE, 0, kids, anc) :
             kids \in {<<Node(TRUE, 0, 0, 3, 5, <<>>)>>},
             anc \in {<<Node(TRUE, 1, 2, 9, 9, <<>>)>>}}

\* const scrollStateRef = useRef({x: 0, y: 0}); useState(0)
FreshBox(layout, isScrollContainer) ==
    [layout |-> layout,
     isScrollContainer |-> isScrollContainer,
     scrollState |-> [x |-> Num(0), y |-> Num(0)],
     scrollVersion |-> 0,
     internal_scrollOffset |-> [set |-> FALSE, x |-> Num(0), y |-> Num(0)],
     lastCall |-> [op |-> "mount", x |-> Undefined, y |-> Undefined],
     result |-> [x |-> Undefined, y |-> Undefined,
                 width |-> Undefined, height |-> Undefined]]

IdleBox ==
    [FreshBox([yogaNode |-> FALSE, left |-> 0, top |-> 0, width |-> 0, height |-> 0,
              borderLeft |-> 0, borderRight |-> 0, borderTop |-> 0, borderBottom |-> 0,
              childNodes |-> <<>>, ancestors |-> <<>>], FALSE)
     EXCEPT !.lastCall = [op |-> "idle", x |-> Undefined, y |-> Undefined]]

\* the renderer right after create()
\* ------------------------------------------------ compositor: the data
FrameW == 4
FrameH == 2
MaxNodes == 3
MaxZ == 1

\* a style value that is an integer or unset
Off(n) == [set |-> TRUE, n |-> n]
Unset == [set |-> FALSE, n |-> 0]

Rect(x, y, width, height) == [x |-> x, y |-> y, width |-> width, height |-> height]

FrameRect == Rect(0, 0, FrameW, FrameH)

Cells == (0..(FrameW - 1)) \X (0..(FrameH - 1))

\* a cell holds character k of the text of the node with document index node
BlankCell == [node |-> 0, k |-> 0]
BlankFrame == [c \in Cells |-> BlankCell]

\* an absolutely positioned box holding one text run of width characters
AbsNode(left, right, top, bottom, zIndex, width) ==
    [left |-> left, right |-> right, top |-> top, bottom |-> bottom,
     zIndex |-> zIndex, width |-> width, height |-> 1]

\* the parent box: containing block of its absolute children and, with
\* overflow hidden, the owner of their clip rectangle
Container(rect, hidden) == [rect |-> rect, hidden |-> hidden]

Containers ==
    { Container(r, h) : r \in { FrameRect,
                                Rect(1, 0, FrameW, FrameH),
                                Rect(1, 1, 2, 1) },
                        h \in BOOLEAN }

ZIndexes == {Unset} \cup {Off(z) : z \in 0..MaxZ}

Horizontals ==
    { <<Off(l), Unset>> : l \in {0 - 1, 0, 1, FrameW} }
    \cup { <<Unset, Off(r)>> : r \in {0, 1} }
    \cup { <<Off(1), Off(0)>>, <<Unset, Unset>> }

Verticals ==
    { <<Off(t), Unset>> : t \in {0 - 1, 0, FrameH} }
    \cup { <<Unset, Off(0)>>, <<Unset, Unset>> }

\* one node at every placement
PlacedNodes ==
    { AbsNode(h[1], h[2], v[1], v[2], Unset, w) :
        h \in Horizontals, v \in Verticals, w \in 1..2 }

\* nodes that overlap each other, at every zIndex
StackedNodes ==
    { AbsNode(Off(l), Unset, Off(0), Unset, z, 2) : l \in 0..1, z \in ZIndexes }

RECURSIVE SeqsOf(_, _)
SeqsOf(S, n) ==
    IF n = 0 THEN {<<>>}
    ELSE {Append(q, e) : q \in SeqsOf(S, n - 1), e \in S}

Scene(container, children) == [container |-> container, children |-> children]

Scenes ==
    { Scene(c, <<n>>) : c \in Containers, n \in PlacedNodes }
    \cup { Scene(c, q) : c \in Containers,
                         q \in UNION {SeqsOf(StackedNodes, n) : n \in 2..MaxNodes} }

IdlePaint ==
    [phase |-> "off", scene |-> Scene(Container(FrameRect, FALSE), <<>>),
     list |-> <<>>, next |-> 0, frame |-> BlankFrame]

LogInit ==
    /\ mode \in {"standard", "incremental"}
    /\ showCursor \in BOOLEAN
    /\ previousOutput = <<>>
    /\ previousLineCount = 0
    /\ previousLines = <<>>
    /\ hasHiddenCursor = FALSE
    /\ terminal = FreshTerminal
    /\ cursorVisible = TRUE
    /\ effects = <<>>
    /\ lastOp = Op("create", <<>>)
    /\ rendersOnly = TRUE
    /\ hidesSinceDone = 0
    /\ wroteSinceDone = FALSE
    /\ lastStr = NoStr
    /\ twin = FreshTwin

Init ==
    /\ LogInit
    /\ box = IdleBox
    /\ paint = IdlePaint

MustHideEveryCall(show, hidden) == ~show

\* if (!showCursor && !hasHiddenCursor): the prologue of both render functions
MustHide(show, hidden) == ~show /\ ~hidden

SameOutputNever(output, prevOutput) == FALSE

\* if (output === previousOutput) return
SameOutput(output, prevOutput) == output = prevOutput

LineCountOne(output) == 1

\* output.split('\n').length
LineCount(output) == Len(Split(output))

\* what the terminal does with the effects of one call
CursorAfter(eff, visible) ==
    IF eff = <<>> THEN visible
    ELSE LET last == SelectSeq(eff, LAMBDA e : e.k # "write") IN
         IF last = <<>> THEN visible ELSE last[Len(last)].k = "show"

RECURSIVE WriteToks(_)
WriteToks(eff) ==
    IF eff = <<>> THEN <<>>
    ELSE (IF Head(eff).k = "write" THEN Head(eff).toks ELSE <<>>) \o WriteToks(Tail(eff))

DoneEffectsAlwaysNewline(prevOutput, show) ==
    <<Write(<<Ch(NL)>>)>> \o (IF ~show THEN <<Show>> ELSE <<>>)

DoneEffectsNeverShow(prevOutput, show) ==
    IF Len(prevOutput) > 0 THEN <<Write(<<Ch(NL)>>)>> ELSE <<>>

\* done() of both renderers: the trailing newline, then the cursor
DoneEffects(prevOutput, show) ==
    (IF Len(prevOutput) > 0 THEN <<Write(<<Ch(NL)>>)>> ELSE <<>>)
    \o (IF ~show THEN <<Show>> ELSE <<>>)

\* ---------------------------------------- incremental renderer: the write
ContentChangedAlways(nextLines, prevLines, i) == TRUE

\* nextLines[i] !== previousLines[i], with i counted from 0 (a missing
\* previous line is undefined and differs from every string)
ContentChanged(nextLines, prevLines, i) ==
    i >= Len(prevLines) \/ nextLines[i + 1] # prevLines[i + 1]

DiffStartOneMore(previousCount, nextCount) ==
    IF nextCount < previousCount
    THEN EraseLines(previousCount - nextCount + 1) \o <<CursorUp(nextCount)>>
    ELSE <<CursorUp(previousCount - 1)>>

\* the start of the buffer: erase the surplus, go to the top
DiffStart(previousCount, nextCount) ==
    IF nextCount < previousCount
    THEN EraseLines(previousCount - nextCount) \o <<CursorUp(nextCount)>>
    ELSE <<CursorUp(previousCount - 1)>>

\* the line loop, from line i on
RECURSIVE DiffLines(_, _, _)
DiffLines(i, nextLines, prevLines) ==
    LET visibleCount == Len(nextLines) IN
    IF i >= visibleCount THEN <<>>
    ELSE LET contentChanged == ContentChanged(nextLines, prevLines, i) IN
         (IF contentChanged THEN <<EraseLine>> \o Text(nextLines[i + 1]) ELSE <<>>)
         \o (IF i < visibleCount - 1
             THEN <<IF contentChanged THEN Ch(NL) ELSE CursorNextLine>>
             ELSE <<>>)
         \o DiffLines(i + 1, nextLines, prevLines)

IncrementalOutputNoErase(prevOutput, prevLines, output) ==
    IF output = <<>> \/ Len(prevOutput) = 0
    THEN Text(output)
    ELSE DiffStart(Len(prevLines), Len(Split(output)))
         \o DiffLines(0, Split(output), prevLines)

\* the write of createIncremental.render: the fallback or the diff buffer
IncrementalOutput(prevOutput, prevLines, output) ==
    IF output = <<>> \/ Len(prevOutput) = 0
    THEN EraseLines(Len(prevLines)) \o Text(output)
    ELSE DiffStart(Len(prevLines), Len(Split(output)))
         \o DiffLines(0, Split(output), prevLines)

\* An incremental renderer created with the same options and given the same
\* calls as the renderer above: createIncremental as a function of its state.
TwinStep(tw, name, str) ==
    IF name = "render" THEN
        LET hide == MustHide(showCursor, tw.hasHiddenCursor)
            hideEffects == IF hide THEN <<Hide>> ELSE <<>>
        IN  IF SameOutput(str, tw.previousOutput)
            THEN [tw EXCEPT !.hasHiddenCursor = (@ \/ hide), !.effects = hideEffects]
            ELSE [previousOutput |-> str,
                  previousLines |-> Split(str),
                  hasHiddenCursor |-> (tw.hasHiddenCursor \/ hide),
                  effects |-> hideEffects \o
                      <<Write(IncrementalOutput(tw.previousOutput, tw.previousLines, str))>>]
    ELSE IF name = "clear" THEN
        [tw EXCEPT !.previousOutput = <<>>, !.previousLines = <<>>,
                   !.effects = <<Write(EraseLines(Len(tw.previousLines)))>>]
    ELSE IF name = "done" THEN
        [previousOutput |-> <<>>, previousLines |-> <<>>,
         hasHiddenCursor |-> (IF ~showCursor THEN FALSE ELSE tw.hasHiddenCursor),
         effects |-> DoneEffects(tw.previousOutput, showCursor)]
    ELSE \* sync
        [tw EXCEPT !.previousOutput = str, !.previousLines = Split(str),
                   !.effects = <<>>]

\* the bookkeeping every call shares: the sink, the terminal and the history
Emit(name, s, eff) ==
    /\ terminal' = (IF rendersOnly /\ name = "render"
                    THEN ApplyWrite(terminal, WriteToks(eff)) ELSE FreshTerminal)
    /\ terminal'.ok
    /\ cursorVisible' = CursorAfter(eff, cursorVisible)
    /\ effects' = eff
    /\ lastOp' = Op(name, s)
    /\ twin' = TwinStep(twin, name, s)
    /\ UNCHANGED <<box, paint>>
    /\ rendersOnly' = (rendersOnly /\ name = "render")
    /\ hidesSinceDone' =
          (IF name = "done" THEN 0 ELSE hidesSinceDone)
          + Len(SelectSeq(eff, LAMBDA e : e.k = "hide"))
    /\ wroteSinceDone' =
          IF name = "done" THEN FALSE
          ELSE wroteSinceDone \/ (name = "render" /\ Writes(eff) # <<>>)

\* ------------------------------------------------------- standard renderer
StandardOutputNoErase(lineCount, output) == Text(output)

\* ansiEscapes.eraseLines(previousLineCount) + output
StandardOutput(lineCount, output) == EraseLines(lineCount) \o Text(output)

RenderStandard(str) ==
    /\ mode = "standard"
    /\ hasHiddenCursor' = (hasHiddenCursor \/ MustHide(showCursor, hasHiddenCursor))
    /\ IF SameOutput(str, previousOutput)
       THEN /\ Emit("render", str, IF MustHide(showCursor, hasHiddenCursor) THEN <<Hide>> ELSE <<>>)
            /\ UNCHANGED <<previousOutput, previousLineCount, lastStr>>
       ELSE /\ Emit("render", str,
                    (IF MustHide(showCursor, hasHiddenCursor) THEN <<Hide>> ELSE <<>>)
                    \o <<Write(StandardOutput(previousLineCount, str))>>)
            /\ previousOutput' = str
            /\ previousLineCount' = LineCount(str)
            /\ lastStr' = SomeStr(str)
    /\ UNCHANGED <<mode, showCursor, previousLines>>

ClearStandardKeepsCount ==
    /\ mode = "standard"
    /\ Emit("clear", <<>>, <<Write(EraseLines(previousLineCount))>>)
    /\ previousOutput' = <<>>
    /\ lastStr' = NoStr
    /\ UNCHANGED <<mode, showCursor, previousLineCount, previousLines, hasHiddenCursor>>

ClearStandard ==
    /\ mode = "standard"
    /\ Emit("clear", <<>>, <<Write(EraseLines(previousLineCount))>>)
    /\ previousOutput' = <<>>
    /\ previousLineCount' = 0
    /\ lastStr' = NoStr
    /\ UNCHANGED <<mode, showCursor, previousLines, hasHiddenCursor>>

DoneStandard ==
    /\ mode = "standard"
    /\ Emit("done", <<>>, DoneEffects(previousOutput, showCursor))
    /\ previousOutput' = <<>>
    /\ previousLineCount' = 0
    /\ hasHiddenCursor' = (IF ~showCursor THEN FALSE ELSE hasHiddenCursor)
    /\ lastStr' = NoStr
    /\ UNCHANGED <<mode, showCursor, previousLines>>

SyncStandard(str) ==
    /\ mode = "standard"
    /\ Emit("sync", str, <<>>)
    /\ previousOutput' = str
    /\ previousLineCount' = LineCount(str)
    /\ lastStr' = SomeStr(str)
    /\ UNCHANGED <<mode, showCursor, previousLines, hasHiddenCursor>>

\* ---------------------------------------------------- incremental renderer
RenderIncremental(str) ==
    /\ mode = "incremental"
    /\ hasHiddenCursor' = (hasHiddenCursor \/ MustHide(showCursor, hasHiddenCursor))
    /\ IF SameOutput(str, previousOutput)
       THEN /\ Emit("render", str, IF MustHide(showCursor, hasHiddenCursor) THEN <<Hide>> ELSE <<>>)
            /\ UNCHANGED <<previousOutput, previousLines, lastStr>>
       ELSE /\ Emit("render", str,
                    (IF MustHide(showCursor, hasHiddenCursor) THEN <<Hide>> ELSE <<>>)
                    \o <<Write(IncrementalOutput(previousOutput, previousLines, str))>>)
            /\ previousOutput' = str
            /\ previousLines' = Split(str)
            /\ lastStr' = SomeStr(str)
    /\ UNCHANGED <<mode, showCursor, previousLineCount>>

ClearIncremental ==
    /\ mode = "incremental"
    /\ Emit("clear", <<>>, <<Write(EraseLines(Len(previousLines)))>>)
    /\ previousOutput' = <<>>
    /\ previousLines' = <<>>
    /\ lastStr' = NoStr
    /\ UNCHANGED <<mode, showCursor, previousLineCount, hasHiddenCursor>>

DoneIncremental ==
    /\ mode = "incremental"
    /\ Emit("done", <<>>, DoneEffects(previousOutput, showCursor))
    /\ previousOutput' = <<>>
    /\ previousLines' = <<>>
    /\ hasHiddenCursor' = (IF ~showCursor THEN FALSE ELSE hasHiddenCursor)
    /\ lastStr' = NoStr
    /\ UNCHANGED <<mode, showCursor, previousLineCount>>

SyncIncrementalKeepsLines(str) ==
    /\ mode = "incremental"
    /\ Emit("sync", str, <<>>)
    /\ previousOutput' = str
    /\ lastStr' = SomeStr(str)
    /\ UNCHANGED <<mode, showCursor, previousLineCount, previousLines, hasHiddenCursor>>

SyncIncremental(str) ==
    /\ mode = "incremental"
    /\ Emit("sync", str, <<>>)
    /\ previousOutput' = str
    /\ previousLines' = Split(str)
    /\ lastStr' = SomeStr(str)
    /\ UNCHANGED <<mode, showCursor, previousLineCount, hasHiddenCursor>>

Next ==
    \/ \E str \in Strs : RenderStandard(str)
    \/ ClearStandard
    \/ DoneStandard
    \/ \E str \in Strs : SyncStandard(str)
    \/ \E str \in Strs : RenderIncremental(str)
    \/ ClearIncremental
    \/ DoneIncremental
    \/ \E str \in Strs : SyncIncremental(str)

Spec == Init /\ [][Next]_vars

\* -------------------------------------------------- <Box>: the ref handle
Max(a, b) == IF a >= b THEN a ELSE b

\* measureNode: the largest right and bottom edge among the children that
\* have a yogaNode and their descendants, offsets accumulated on the way down
RECURSIVE MeasureNode(_, _, _)
MeasureNode(childNodes, offsetX, offsetY) ==
    IF childNodes = <<>> THEN [width |-> 0, height |-> 0]
    ELSE LET child == Head(childNodes)
             others == MeasureNode(Tail(childNodes), offsetX, offsetY)
         IN  IF child.yoga
             THEN LET childX == offsetX + child.left
                      childY == offsetY + child.top
                      right == childX + child.width
                      bottom == childY + child.height
                      below == MeasureNode(child.childNodes, childX, childY)
                  IN  [width |-> Max(Max(others.width, right), below.width),
                       height |-> Max(Max(others.height, bottom), below.height)]
             ELSE others

GetContentDimensions(layout) ==
    IF ~layout.yogaNode THEN [width |-> 0, height |-> 0]
    ELSE MeasureNode(layout.childNodes, 0, 0)

GetMaxScrollNoBorder(layout) ==
    IF ~layout.yogaNode THEN [x |-> 0, y |-> 0]
    ELSE [x |-> Max(0, GetContentDimensions(layout).width - layout.width),
          y |-> Max(0, GetContentDimensions(layout).height - layout.height)]

GetMaxScroll(layout) ==
    IF ~layout.yogaNode THEN [x |-> 0, y |-> 0]
    ELSE LET containerWidth == layout.width - layout.borderLeft - layout.borderRight
             containerHeight == layout.height - layout.borderTop - layout.borderBottom
             content == GetContentDimensions(layout)
         IN  [x |-> Max(0, content.width - containerWidth),
              y |-> Max(0, content.height - containerHeight)]

\* Math.max(0, Math.min(v, max))
Clamp(v, max) == MathMax(Num(0), MathMin(v, Num(max)))

NoResult == [x |-> Undefined, y |-> Undefined, width |-> Undefined, height |-> Undefined]

\* element.internal_scrollOffset = {...scrollStateRef.current}
Exposed(scrollState) == [set |-> TRUE, x |-> scrollState.x, y |-> scrollState.y]

ScrollTo(x, y) ==
    /\ box.lastCall.op # "idle"
    /\ box.scrollVersion < MaxVersion
    /\ LET maxScroll == GetMaxScroll(box.layout)
           state == [x |-> IF x # Undefined THEN Clamp(x, maxScroll.x)
                           ELSE box.scrollState.x,
                     y |-> IF y # Undefined THEN Clamp(y, maxScroll.y)
                           ELSE box.scrollState.y]
       IN  box' = [box EXCEPT !.scrollState = state,
                              !.internal_scrollOffset = Exposed(state),
                              !.scrollVersion = @ + 1,
                              !.lastCall = [op |-> "scrollTo", x |-> x, y |-> y],
                              !.result = NoResult]
    /\ UNCHANGED <<logVars, paint>>

GetScrollPosition ==
    /\ box.lastCall.op # "idle"
    /\ box' = [box EXCEPT !.lastCall = [op |-> "getScrollPosition",
                                        x |-> Undefined, y |-> Undefined],
                          !.result = [NoResult EXCEPT !.x = box.scrollState.x,
                                                      !.y = box.scrollState.y]]
    /\ UNCHANGED <<logVars, paint>>

ScrollToTopKeepsExposed ==
    /\ box.lastCall.op # "idle"
    /\ box.scrollVersion < MaxVersion
    /\ LET state == [box.scrollState EXCEPT !.y = Num(0)]
       IN  box' = [box EXCEPT !.scrollState = state,
                              !.scrollVersion = @ + 1,
                              !.lastCall = [op |-> "scrollToTop",
                                            x |-> Undefined, y |-> Undefined],
                              !.result = NoResult]
    /\ UNCHANGED <<logVars, paint>>

ScrollToTop ==
    /\ box.lastCall.op # "idle"
    /\ box.scrollVersion < MaxVersion
    /\ LET state == [box.scrollState EXCEPT !.y = Num(0)]
       IN  box' = [box EXCEPT !.scrollState = state,
                              !.internal_scrollOffset = Exposed(state),
                              !.scrollVersion = @ + 1,
                              !.lastCall = [op |-> "scrollToTop",
                                            x |-> Undefined, y |-> Undefined],
                              !.result = NoResult]
    /\ UNCHANGED <<logVars, paint>>

ScrollToBottom ==
    /\ box.lastCall.op # "idle"
    /\ box.scrollVersion < MaxVersion
    /\ LET maxScroll == GetMaxScroll(box.layout)
           state == [box.scrollState EXCEPT !.y = Num(maxScroll.y)]
       IN  box' = [box EXCEPT !.scrollState = state,
                              !.internal_scrollOffset = Exposed(state),
                              !.scrollVersion = @ + 1,
                              !.lastCall = [op |-> "scrollToBottom",
                                            x |-> Undefined, y |-> Undefined],
                              !.result = NoResult]
    /\ UNCHANGED <<logVars, paint>>

\* the while loop of getBounds: add the parents up to the first one that is
\* missing or has no yogaNode
RECURSIVE BoundsWalk(_, _, _)
BoundsWalk(parents, x, y) ==
    IF parents = <<>> \/ ~Head(parents).yoga THEN [x |-> x, y |-> y]
    ELSE BoundsWalk(Tail(parents), x + Head(parents).left, y + Head(parents).top)

Bounds(layout) ==
    IF ~layout.yogaNode
    THEN [x |-> Num(0), y |-> Num(0), width |-> Num(0), height |-> Num(0)]
    ELSE [x |-> Num(BoundsWalk(layout.ancestors, layout.left, layout.top).x),
          y |-> Num(BoundsWalk(layout.ancestors, layout.left, layout.top).y),
          width |-> Num(layout.width),
          height |-> Num(layout.height)]

GetBounds ==
    /\ box.lastCall.op # "idle"
    /\ box' = [box EXCEPT !.lastCall = [op |-> "getBounds",
                                        x |-> Undefined, y |-> Undefined],
                          !.result = Bounds(box.layout)]
    /\ UNCHANGED <<logVars, paint>>

\* a commit with a new layout; the layout effect of Box runs after it
RelayoutReclamps(layout) ==
    /\ box.lastCall.op # "idle"
    /\ box' = [box EXCEPT !.layout = layout,
                          !.scrollState.y = Clamp(@, GetMaxScroll(layout).y),
                          !.internal_scrollOffset =
                              IF box.isScrollContainer THEN Exposed(box.scrollState)
                              ELSE @,
                          !.lastCall = [op |-> "relayout",
                                        x |-> Undefined, y |-> Undefined],
                          !.result = NoResult]
    /\ UNCHANGED <<logVars, paint>>

Relayout(layout) ==
    /\ box.lastCall.op # "idle"
    /\ box' = [box EXCEPT !.layout = layout,
                          !.internal_scrollOffset =
                              IF box.isScrollContainer THEN Exposed(box.scrollState)
                              ELSE @,
                          !.lastCall = [op |-> "relayout",
                                        x |-> Undefined, y |-> Undefined],
                          !.result = NoResult]
    /\ UNCHANGED <<logVars, paint>>

\* the values a caller hands to scrollTo on one axis
ScrollArgs == {Undefined, NaN, Null} \cup {Num(n) : n \in (0 - 1)..MaxOffset}

\* the calls of scrollTo followed: one axis, or the same value on both
ScrollCalls ==
    {c \in ScrollArgs \X ScrollArgs :
        c[1] = Undefined \/ c[2] = Undefined \/ c[1] = c[2]}

InitBox ==
    /\ LogInit
    /\ mode = "standard" /\ ~showCursor
    /\ \E layout \in Layouts, scroll \in BOOLEAN : box = FreshBox(layout, scroll)
    /\ paint = IdlePaint

NextBox ==
    \/ \E c \in ScrollCalls : ScrollTo(c[1], c[2])
    \/ GetScrollPosition
    \/ ScrollToTop
    \/ ScrollToBottom
    \/ GetBounds
    \/ \E layout \in Layouts : Relayout(layout)

SpecBox == InitBox /\ [][NextBox]_vars

\* ------------------------------------------------------------ properties
\* the screen shows exactly these lines, from the first row, and nothing else
ScreenShows(lines) ==
    \A r \in 0..MaxRow :
        terminal.screen[r] = (IF r < Len(lines) THEN lines[r + 1] ELSE <<>>)

HasKind(eff, kind) == \E i \in 1..Len(eff) : eff[i].k = kind

CountTok(toks, kind) == Cardinality({i \in 1..Len(toks) : toks[i].k = kind})

\* the line count the renderer tracks, in either mode
TrackedCount == IF mode = "standard" THEN previousLineCount ELSE Len(previousLines)

\* C1: incremental mode, from a fresh renderer and an empty terminal: after
\* any sequence of render calls the terminal shows the string rendered last.
C1_IncrementalShowsLastRender ==
    (mode = "incremental" /\ rendersOnly /\ lastOp.op = "render")
        => ScreenShows(Split(lastOp.arg))

\* C2: standard mode, from a fresh renderer and an empty terminal: after any
\* sequence of render calls the terminal shows the string rendered last.
C2_StandardShowsLastRender ==
    (mode = "standard" /\ rendersOnly /\ lastOp.op = "render")
        => ScreenShows(Split(lastOp.arg))

\* a render that replaced a frame of several lines by a non-empty frame
C2_Witness ==
    /\ mode = "standard" /\ rendersOnly /\ lastOp.op = "render"
    /\ Writes(effects) # <<>>
    /\ CountTok(Writes(effects)[1].toks, "eraseLine") >= 2
    /\ terminal.screen[0] # <<>>
    /\ terminal.screen[1] = <<>>

\* the call just made is render(next) with next equal to the tracked output
NoopRender == lastOp'.op = "render" /\ lastOp'.arg = previousOutput

\* C3 as stated: render(next) with next equal to the tracked output writes
\* nothing, issues no cursor hide or show and changes no renderer state.
C3_NoopRenderChangesNothing ==
    [][NoopRender =>
          /\ effects' = <<>>
          /\ UNCHANGED <<previousOutput, previousLines, previousLineCount,
                         hasHiddenCursor>>]_vars

\* C3 amended: such a render writes nothing, issues no show-cursor and leaves
\* the tracked output and lines unchanged; it issues hide-cursor and sets the
\* flag exactly when the renderer was created without showCursor and the flag
\* was false; the second of two renders of the same text in a row does nothing.
C3_NoopRenderWritesNothing ==
    [][/\ NoopRender =>
            /\ Writes(effects') = <<>>
            /\ ~HasKind(effects', "show")
            /\ UNCHANGED <<previousOutput, previousLines, previousLineCount>>
            /\ HasKind(effects', "hide") <=> (~showCursor /\ ~hasHiddenCursor)
            /\ hasHiddenCursor' = (hasHiddenCursor \/ ~showCursor)
       /\ (lastOp.op = "render" /\ lastOp'.op = "render" /\ lastOp'.arg = lastOp.arg) =>
            /\ effects' = <<>>
            /\ UNCHANGED <<previousOutput, previousLines, previousLineCount,
                           hasHiddenCursor, cursorVisible>>]_vars

\* a render of the tracked output that did nothing but hide the cursor
C3_Witness ==
    /\ lastOp.op = "render" /\ lastOp.arg = previousOutput
    /\ effects = <<Hide>>
    /\ previousOutput # <<>>

\* the number of lines of a string: one more than its newline characters
NumLines(s) == 1 + Cardinality({i \in 1..Len(s) : s[i] = NL})

\* the number of lines of the string of the last sync or effective render,
\* 0 if there was none since creation, clear or done
LastStrLines == IF lastStr.some THEN NumLines(lastStr.str) ELSE 0

\* C4: standard mode: a render that is not a no-op makes exactly one write,
\* an erase of N lines followed by the whole of next, N being the line count
\* of the string of the last render or sync, 0 after creation, clear or done.
C4_StandardWriteErasesPrevious ==
    [][(mode = "standard" /\ lastOp'.op = "render" /\ lastOp'.arg # previousOutput) =>
          Writes(effects') =
              <<Write(EraseLines(LastStrLines) \o Text(lastOp'.arg))>>]_vars

\* a standard render over a frame of three lines
C4_Witness ==
    /\ mode = "standard" /\ lastOp.op = "render"
    /\ Writes(effects) # <<>>
    /\ CountTok(Writes(effects)[1].toks, "eraseLine") = 3
    /\ CountTok(Writes(effects)[1].toks, "ch") >= 1

\* C5: what the claim says the diff writes for line i (counted from 0) of
\* next: erase-line and the text if the line differs from the previous line i
\* or there is none, nothing if not; then, unless it is the last line, a
\* newline if the line was rewritten and cursor-next-line if not.
C5_Differs(nextLines, prevLines, i) ==
    IF i < Len(prevLines) THEN nextLines[i + 1] # prevLines[i + 1] ELSE TRUE

C5_Segment(nextLines, prevLines, i) ==
    (IF C5_Differs(nextLines, prevLines, i)
     THEN <<EraseLine>> \o Text(nextLines[i + 1]) ELSE <<>>)
    \o (IF i = Len(nextLines) - 1 THEN <<>>
        ELSE IF C5_Differs(nextLines, prevLines, i) THEN <<Ch(NL)>>
        ELSE <<CursorNextLine>>)

RECURSIVE C5_Segments(_, _, _)
C5_Segments(nextLines, prevLines, n) ==
    IF n = 0 THEN <<>>
    ELSE C5_Segments(nextLines, prevLines, n - 1)
         \o C5_Segment(nextLines, prevLines, n - 1)

\* toks ends with the segments of all the lines of next, and what comes
\* before them (the move to the top of the frame) writes no text
C5_EndsWithSegments(toks, nextLines, prevLines) ==
    LET body == C5_Segments(nextLines, prevLines, Len(nextLines))
        k == Len(toks) - Len(body)
    IN  /\ k >= 0
        /\ SubSeq(toks, k + 1, Len(toks)) = body
        /\ \A j \in 1..k : toks[j].k # "ch"

C5_IncrementalDiffRewritesChangedLines ==
    [][(/\ mode = "incremental" /\ lastOp'.op = "render"
        /\ previousOutput # <<>> /\ lastOp'.arg # <<>>
        /\ lastOp'.arg # previousOutput) =>
          /\ Len(Writes(effects')) = 1
          /\ C5_EndsWithSegments(Writes(effects')[1].toks,
                                 Split(lastOp'.arg), previousLines)]_vars

\* a diff that kept a line and rewrote another
C5_Witness ==
    /\ mode = "incremental" /\ lastOp.op = "render"
    /\ Writes(effects) # <<>>
    /\ CountTok(Writes(effects)[1].toks, "cursorNextLine") >= 1
    /\ CountTok(Writes(effects)[1].toks, "cursorUp") >= 1
    /\ Writes(effects)[1].toks[Len(Writes(effects)[1].toks)].k = "ch"

\* C6: without showCursor the cursor is hidden no later than the first write
\* of render since creation or the last done(), hide-cursor is issued at most
\* once between two done() calls whatever is called in between, and with
\* showCursor it is never issued.
C6_CursorHiddenOnceBeforeFirstWrite ==
    /\ (~showCursor /\ wroteSinceDone) => (hasHiddenCursor /\ ~cursorVisible)
    /\ \A i, j \in 1..Len(effects) :
          (effects[i].k = "hide" /\ effects[j].k = "write") => i < j
    /\ hidesSinceDone <= 1
    /\ showCursor => (hidesSinceDone = 0 /\ ~HasKind(effects, "hide") /\ cursorVisible)

\* a later render that wrote without hiding the cursor again
C6_Witness ==
    /\ ~showCursor /\ hidesSinceDone = 1 /\ wroteSinceDone
    /\ lastOp.op = "render"
    /\ Len(effects) = 1 /\ effects[1].k = "write"

\* C7: done() writes one newline if the tracked output is non-empty and
\* nothing otherwise, leaves the tracked output empty and the tracked line
\* count 0, and the next render of a non-empty string erases no line and
\* writes the string in full.
C7_DoneWritesNewlineAndResets ==
    [][/\ lastOp'.op = "done" =>
            /\ Writes(effects') =
                  (IF previousOutput # <<>> THEN <<Write(<<Ch(NL)>>)>> ELSE <<>>)
            /\ previousOutput' = <<>>
            /\ TrackedCount' = 0
       /\ (lastOp.op = "done" /\ lastOp'.op = "render" /\ lastOp'.arg # <<>>) =>
            Writes(effects') = <<Write(Text(lastOp'.arg))>>]_vars

\* a done() that wrote the trailing newline
C7_Witness ==
    /\ lastOp.op = "done"
    /\ Writes(effects) = <<Write(<<Ch(NL)>>)>>
    /\ previousOutput = <<>> /\ TrackedCount = 0

\* C8 as stated: done() issues show-cursor if and only if the cursor-hidden
\* flag is set, and leaves the flag false.
C8_DoneShowsIffHidden ==
    [][lastOp'.op = "done" =>
          /\ HasKind(effects', "show") <=> hasHiddenCursor
          /\ ~hasHiddenCursor']_vars

\* C8 amended: done() issues show-cursor, once, if and only if the renderer
\* was created without showCursor, whether or not the flag is set; so it does
\* whenever this renderer had hidden the cursor, and after done() the flag is
\* false and the cursor visible.
C8_DoneShowsUnlessShowCursor ==
    [][lastOp'.op = "done" =>
          /\ HasKind(effects', "show") <=> ~showCursor
          /\ CountTok(effects', "show") <= 1
          /\ hasHiddenCursor => HasKind(effects', "show")
          /\ ~hasHiddenCursor'
          /\ cursorVisible']_vars

\* a done() with nothing rendered that showed the cursor and wrote nothing
C8_Witness ==
    /\ lastOp.op = "done" /\ ~showCursor
    /\ effects = <<Show>>
    /\ hidesSinceDone = 0 /\ ~rendersOnly /\ cursorVisible

\* C9: clear() makes one write, an erase of exactly the tracked line count
\* (the lines of the string of the last render or sync, 0 if none), and leaves
\* the tracked output empty, the tracked line count 0 and the cursor-hidden
\* flag as it was; a clear() right after a clear() erases no line.
C9_ClearErasesTrackedLines ==
    [][/\ lastOp'.op = "clear" =>
            /\ TrackedCount = LastStrLines
            /\ effects' = <<Write(EraseLines(TrackedCount))>>
            /\ CountTok(effects'[1].toks, "eraseLine") = TrackedCount
            /\ previousOutput' = <<>>
            /\ TrackedCount' = 0
            /\ UNCHANGED <<hasHiddenCursor, cursorVisible>>
       /\ (lastOp.op = "clear" /\ lastOp'.op = "clear") =>
            effects' = <<Write(<<>>)>>]_vars

\* a clear() that erased a frame of three lines
C9_Witness ==
    /\ lastOp.op = "clear"
    /\ CountTok(effects[1].toks, "eraseLine") = 3
    /\ previousOutput = <<>> /\ TrackedCount = 0

\* what a renderer that tracks the string s as rendered writes for render(next)
C10_WriteAgainst(s, next) ==
    IF mode = "standard"
    THEN EraseLines(NumLines(s)) \o Text(next)
    ELSE IncrementalOutput(s, Split(s), next)

\* C10: sync(next) writes nothing and issues no cursor hide or show, and
\* makes next the tracked state: a render(next) right after it writes nothing
\* and a render of another string right after it is computed against next.
C10_SyncAdoptsWithoutWriting ==
    [][/\ lastOp'.op = "sync" =>
            /\ effects' = <<>>
            /\ UNCHANGED <<hasHiddenCursor, cursorVisible>>
            /\ previousOutput' = lastOp'.arg
            /\ TrackedCount' = NumLines(lastOp'.arg)
       /\ (lastOp.op = "sync" /\ lastOp'.op = "render") =>
            Writes(effects') =
                (IF lastOp'.arg = lastOp.arg THEN <<>>
                 ELSE <<Write(C10_WriteAgainst(lastOp.arg, lastOp'.arg))>>)]_vars

\* a sync of a string of several lines after something else was rendered
C10_Witness ==
    /\ lastOp.op = "sync"
    /\ NumLines(lastOp.arg) >= 2 /\ Len(lastOp.arg) >= 2
    /\ previousOutput = lastOp.arg
    /\ wroteSinceDone
    /\ effects = <<>>

\* the call just made is a render on the diff path of the incremental renderer
C18_DiffStep ==
    /\ mode = "incremental" /\ lastOp'.op = "render"
    /\ previousOutput # <<>> /\ lastOp'.arg # <<>>
    /\ lastOp'.arg # previousOutput

\* what the write of such a render begins with: all that comes before the
\* segments of the lines of next
C18_Start(toks, nextLines, prevLines) ==
    SubSeq(toks, 1,
           Len(toks) - Len(C5_Segments(nextLines, prevLines, Len(nextLines))))

\* C18: on the diff path, with the cursor on the last row of the previous
\* block: if next has fewer lines the write begins by erasing exactly the
\* surplus trailing lines and leaves the cursor on row 0, column 0; otherwise
\* it begins by moving the cursor up previousCount - 1 rows, to row 0 of the
\* previous block; in both cases before any line is rewritten.
C18_DiffStartsAtTopOfBlock ==
    [][C18_DiffStep =>
          LET previousCount == Len(previousLines)
              nextCount == NumLines(lastOp'.arg)
              start == C18_Start(Writes(effects')[1].toks,
                                 Split(lastOp'.arg), previousLines)
              after == ApplyWrite(terminal, start)
              onLastRow == rendersOnly /\ terminal.row = previousCount - 1
          IN  /\ \A j \in 1..Len(start) : start[j].k # "ch"
              /\ IF nextCount < previousCount
                 THEN /\ CountTok(start, "eraseLine") = previousCount - nextCount
                      /\ onLastRow =>
                            /\ after.row = 0 /\ after.col = 0
                            /\ \A r \in 0..MaxRow :
                                  after.screen[r] =
                                     (IF r >= nextCount /\ r < previousCount
                                      THEN <<>> ELSE terminal.screen[r])
                 ELSE /\ start = <<CursorUp(previousCount - 1)>>
                      /\ onLastRow =>
                            /\ after.row = 0
                            /\ after.row = terminal.row - (previousCount - 1)
                            /\ after.screen = terminal.screen]_vars

\* a diff on a followed terminal that erased surplus lines and then moved up
C18_Witness ==
    /\ mode = "incremental" /\ rendersOnly /\ lastOp.op = "render"
    /\ Writes(effects) # <<>>
    /\ \E i \in 1..(Len(Writes(effects)[1].toks) - 1) :
          /\ Writes(effects)[1].toks[i] = CursorLeft
          /\ Writes(effects)[1].toks[i + 1].k = "cursorUp"
    /\ terminal.row = Len(previousLines) - 1

\* C19: a standard and an incremental renderer given the same calls track the
\* same previous output and the same line count after every call, and on a
\* render whose tracked previous output or next is empty the incremental one
\* emits exactly the write of the standard one: an erase of the tracked line
\* count followed by next in full.
C19_TwinTracksTheSame ==
    /\ [](/\ mode = "standard" =>
               /\ twin.previousOutput = previousOutput
               /\ Len(twin.previousLines) = previousLineCount
          /\ mode = "incremental" =>
               /\ twin.previousOutput = previousOutput
               /\ twin.previousLines = previousLines
               /\ twin.effects = effects)
    /\ [][(/\ mode = "standard" /\ lastOp'.op = "render"
           /\ (previousOutput = <<>> \/ lastOp'.arg = <<>>)) =>
             /\ Writes(twin'.effects) = Writes(effects')
             /\ lastOp'.arg # previousOutput =>
                   Writes(twin'.effects) =
                      <<Write(EraseLines(previousLineCount) \o Text(lastOp'.arg))>>]_vars

\* the twin fell back to the standard write when an empty string replaced a
\* frame of several lines
C19_Witness ==
    /\ mode = "standard" /\ lastOp.op = "render" /\ lastOp.arg = <<>>
    /\ Writes(twin.effects) # <<>>
    /\ CountTok(Writes(twin.effects)[1].toks, "eraseLine") >= 2
    /\ Writes(twin.effects) = Writes(effects)

\* ------------------------------------------- compositor: one paint pass
\* the nearest ancestor that anchors the absolute children
ContainingBlock(scene) == scene.container.rect

ResolveOriginNoWidth(node, cb) ==
    [x |-> IF node.left.set THEN cb.x + node.left.n
           ELSE IF node.right.set THEN (cb.x + cb.width) - node.right.n
           ELSE cb.x,
     y |-> IF node.top.set THEN cb.y + node.top.n
           ELSE IF node.bottom.set THEN (cb.y + cb.height) - node.bottom.n
           ELSE cb.y]

\* step 3: the origin of an absolute node; the start edge takes precedence
ResolveOrigin(node, cb) ==
    [x |-> IF node.left.set THEN cb.x + node.left.n
           ELSE IF node.right.set
                THEN ((cb.x + cb.width) - node.right.n) - node.width
           ELSE cb.x,
     y |-> IF node.top.set THEN cb.y + node.top.n
           ELSE IF node.bottom.set
                THEN ((cb.y + cb.height) - node.bottom.n) - node.height
           ELSE cb.y]

ZIndexOf(node) == IF node.zIndex.set THEN node.zIndex.n ELSE 0

\* step 2: the paint entries of the absolute nodes, with their document index
PaintEntry(scene, i) ==
    LET node == scene.children[i]
        origin == ResolveOrigin(node, ContainingBlock(scene))
    IN  [x |-> origin.x, y |-> origin.y, zIndex |-> ZIndexOf(node),
         sourceOrder |-> i, width |-> node.width]

Collect(scene) == {PaintEntry(scene, i) : i \in 1..Len(scene.children)}

PaintsBeforeDocOrder(a, b) == a.sourceOrder < b.sourceOrder

\* step 4: the order (zIndex ascending, document index ascending)
PaintsBefore(a, b) ==
    \/ a.zIndex < b.zIndex
    \/ a.zIndex = b.zIndex /\ a.sourceOrder < b.sourceOrder

RECURSIVE SortEntries(_)
SortEntries(entries) ==
    IF entries = {} THEN <<>>
    ELSE LET first == CHOOSE e \in entries :
                          \A o \in entries \ {e} : PaintsBefore(e, o)
         IN  <<first>> \o SortEntries(entries \ {first})

Intersect(a, b) ==
    LET x == Max(a.x, b.x)
        y == Max(a.y, b.y)
        right == IF a.x + a.width <= b.x + b.width
                 THEN a.x + a.width ELSE b.x + b.width
        bottom == IF a.y + a.height <= b.y + b.height
                  THEN a.y + a.height ELSE b.y + b.height
    IN  Rect(x, y, Max(0, right - x), Max(0, bottom - y))

InRect(c, r) ==
    /\ r.x <= c[1] /\ c[1] < r.x + r.width
    /\ r.y <= c[2] /\ c[2] < r.y + r.height

ActiveClipWholeFrame(container) == FrameRect

\* step 5: the clip of the overflow-hidden ancestor, within the frame
ActiveClip(container) ==
    IF container.hidden THEN Intersect(container.rect, FrameRect) ELSE FrameRect

\* the cells of the run of an entry
OnRun(c, entry) ==
    /\ c[2] = entry.y
    /\ entry.x <= c[1] /\ c[1] < entry.x + entry.width

\* write the run cell by cell; cells outside the clip are dropped
PaintRun(frame, entry, clip) ==
    [c \in Cells |->
        IF OnRun(c, entry) /\ InRect(c, clip)
        THEN [node |-> entry.sourceOrder, k |-> c[1] - entry.x]
        ELSE frame[c]]

\* steps 2 to 4: collect and sort the absolute nodes
BeginFrame ==
    /\ paint.phase = "mounted"
    /\ paint' = [paint EXCEPT !.phase = "painting",
                              !.list = SortEntries(Collect(paint.scene)),
                              !.next = 1,
                              !.frame = BlankFrame]
    /\ UNCHANGED <<logVars, box>>

\* step 4: paint the next entry of the sorted list over the frame
PaintNextEntry ==
    /\ paint.phase = "painting"
    /\ paint.next <= Len(paint.list)
    /\ paint' = [paint EXCEPT !.frame = PaintRun(paint.frame, paint.list[paint.next],
                                                  ActiveClip(paint.scene.container)),
                              !.next = @ + 1]
    /\ UNCHANGED <<logVars, box>>

\* step 6: the frame is complete
EndFrame ==
    /\ paint.phase = "painting"
    /\ paint.next > Len(paint.list)
    /\ paint' = [paint EXCEPT !.phase = "done"]
    /\ UNCHANGED <<logVars, box>>

InitPaint ==
    /\ LogInit
    /\ mode = "standard" /\ ~showCursor
    /\ box = IdleBox
    /\ \E scene \in Scenes :
          paint = [phase |-> "mounted", scene |-> scene, list |-> <<>>,
                   next |-> 0, frame |-> BlankFrame]

NextPaint ==
    \/ BeginFrame
    \/ PaintNextEntry
    \/ EndFrame

SpecPaint == InitPaint /\ [][NextPaint]_vars

\* ------------------------------------------------- properties of <Box>
\* the right and bottom edges of all the descendants that are reached
\* through nodes with geometry, in the coordinates of the container
RECURSIVE C11_Edges(_, _, _)
C11_Edges(childNodes, offsetX, offsetY) ==
    UNION { IF ~childNodes[i].yoga THEN {}
            ELSE { [right |-> offsetX + childNodes[i].left + childNodes[i].width,
                    bottom |-> offsetY + childNodes[i].top + childNodes[i].height] }
                 \cup C11_Edges(childNodes[i].childNodes,
                                offsetX + childNodes[i].left,
                                offsetY + childNodes[i].top)
          : i \in 1..Len(childNodes) }

SetMax(S) == IF S = {} THEN 0 ELSE CHOOSE m \in S : \A n \in S : n <= m

\* maxScroll as the claim defines it: max(0, content extent - inner size)
C11_MaxScroll(layout) ==
    IF ~layout.yogaNode THEN [x |-> 0, y |-> 0]
    ELSE LET edges == C11_Edges(layout.childNodes, 0, 0)
             extentX == SetMax({0} \cup {e.right : e \in edges})
             extentY == SetMax({0} \cup {e.bottom : e \in edges})
             innerX == layout.width - (layout.borderLeft + layout.borderRight)
             innerY == layout.height - (layout.borderTop + layout.borderBottom)
         IN  [x |-> SetMax({0, extentX - innerX}),
              y |-> SetMax({0, extentY - innerY})]

Min(a, b) == IF a <= b THEN a ELSE b

\* C11: for every integer v and every layout, scrollTo({y: v}) leaves the
\* stored y equal to min(max(v, 0), maxScroll.y), maxScroll taken at the time
\* of the call, and likewise for x; the stored offset is never negative.
C11_ScrollToClamps ==
    [][box'.lastCall.op = "scrollTo" =>
          LET maxScroll == C11_MaxScroll(box.layout)
              x == box'.lastCall.x
              y == box'.lastCall.y
          IN  /\ y.t = "num" =>
                    /\ box'.scrollState.y = Num(Min(Max(y.n, 0), maxScroll.y))
                    /\ box'.scrollState.y.n >= 0
              /\ x.t = "num" =>
                    /\ box'.scrollState.x = Num(Min(Max(x.n, 0), maxScroll.x))
                    /\ box'.scrollState.x.n >= 0]_vars

\* a scrollTo beyond a positive maxScroll.y, clamped to it
C11_Witness ==
    /\ box.lastCall.op = "scrollTo"
    /\ box.lastCall.y = Num(MaxOffset)
    /\ box.scrollState.y.t = "num"
    /\ box.scrollState.y.n > 0 /\ box.scrollState.y.n < MaxOffset
    /\ box.scrollState.y.n = GetMaxScroll(box.layout).y

\* the stored offset of one axis is a number within [0, max]
C12_InRange(v, max) == v.t = "num" /\ v.n >= 0 /\ v.n <= max

\* C12: scrollTo leaves the stored offset of an axis whose value is omitted
\* or not a number (undefined, NaN, null) as it was, and the stored offset of
\* each axis is always a number within [0, maxScroll at the time of the call],
\* never NaN.
C12_ScrollToIgnoresNonNumeric ==
    [][box'.lastCall.op = "scrollTo" =>
          /\ box'.lastCall.x.t # "num" => box'.scrollState.x = box.scrollState.x
          /\ box'.lastCall.y.t # "num" => box'.scrollState.y = box.scrollState.y
          /\ box'.lastCall.x.t = "num" =>
                C12_InRange(box'.scrollState.x, C11_MaxScroll(box.layout).x)
          /\ box'.lastCall.y.t = "num" =>
                C12_InRange(box'.scrollState.y, C11_MaxScroll(box.layout).y)
          /\ box'.scrollState.x.t = "num" /\ box'.scrollState.y.t = "num"]_vars

\* C13: scrollToTop() sets y to 0 and scrollToBottom() sets it to maxScroll.y
\* of the time of the call, both leaving x as it was; nothing but scrollTo,
\* scrollToTop and scrollToBottom changes the stored offset, so after a layout
\* change that lowers maxScroll.y getScrollPosition() still returns the old y.
C13_OnlyScrollCallsMoveTheOffset ==
    [][/\ box'.lastCall.op = "scrollToTop" =>
            /\ box'.scrollState.y = Num(0)
            /\ box'.scrollState.x = box.scrollState.x
       /\ box'.lastCall.op = "scrollToBottom" =>
            /\ box'.scrollState.y = Num(C11_MaxScroll(box.layout).y)
            /\ box'.scrollState.x = box.scrollState.x
       /\ box'.lastCall.op \notin {"scrollTo", "scrollToTop", "scrollToBottom"} =>
            box'.scrollState = box.scrollState
       /\ box'.lastCall.op = "getScrollPosition" =>
            /\ box'.result.x = box.scrollState.x
            /\ box'.result.y = box.scrollState.y]_vars

\* getScrollPosition() returned a y above the maxScroll.y of the layout
C13_Witness ==
    /\ box.lastCall.op = "getScrollPosition"
    /\ box.result.y.t = "num"
    /\ box.result.y.n > GetMaxScroll(box.layout).y
    /\ box.layout.yogaNode

\* the sum of the left (top) of every ancestor that has geometry
RECURSIVE C14_SumLeft(_)
C14_SumLeft(ancestors) ==
    IF ancestors = <<>> THEN 0
    ELSE (IF Head(ancestors).yoga THEN Head(ancestors).left ELSE 0)
         + C14_SumLeft(Tail(ancestors))

RECURSIVE C14_SumTop(_)
C14_SumTop(ancestors) ==
    IF ancestors = <<>> THEN 0
    ELSE (IF Head(ancestors).yoga THEN Head(ancestors).top ELSE 0)
         + C14_SumTop(Tail(ancestors))

\* C14: getBounds() returns the size of the node and its left (top) plus the
\* left (top) of every ancestor up to the root, an ancestor without geometry
\* counting zero and those above it still added; a node without geometry
\* yields {0, 0, 0, 0}.
C14_BoundsSumAllAncestors ==
    box.lastCall.op = "getBounds" =>
        box.result =
            (IF ~box.layout.yogaNode
             THEN [x |-> Num(0), y |-> Num(0), width |-> Num(0), height |-> Num(0)]
             ELSE [x |-> Num(box.layout.left + C14_SumLeft(box.layout.ancestors)),
                   y |-> Num(box.layout.top + C14_SumTop(box.layout.ancestors)),
                   width |-> Num(box.layout.width),
                   height |-> Num(box.layout.height)])

\* C20: scrollTo, scrollToTop and scrollToBottom each raise the scroll version
\* by exactly one, also when the offset stays the same, and leave the offset
\* exposed to the compositor equal to what getScrollPosition() returns;
\* getScrollPosition and getBounds change neither version nor offset, and no
\* operation of the box writes to the output sink.
C20_ScrollCallsBumpVersion ==
    [][/\ box'.lastCall.op \in {"scrollTo", "scrollToTop", "scrollToBottom"} =>
            /\ box'.scrollVersion = box.scrollVersion + 1
            /\ box'.internal_scrollOffset.set
            /\ box'.internal_scrollOffset.x = box'.scrollState.x
            /\ box'.internal_scrollOffset.y = box'.scrollState.y
       /\ box'.lastCall.op \in {"getScrollPosition", "getBounds"} =>
            /\ box'.scrollVersion = box.scrollVersion
            /\ box'.scrollState = box.scrollState
            /\ box'.internal_scrollOffset = box.internal_scrollOffset
       /\ box' # box => UNCHANGED <<effects, terminal>>]_vars

\* a second scrollToTop() in a row: the offset stayed, the version went up
C20_Witness ==
    /\ box.lastCall.op = "scrollToTop"
    /\ box.scrollVersion >= 2
    /\ box.scrollState = [x |-> Num(0), y |-> Num(0)]
    /\ box.internal_scrollOffset = Exposed(box.scrollState)
    /\ ~box.isScrollContainer

\* ------------------------------------------ properties of the compositor
\* the zIndex the claims give a node: its own, or 0 when unset
C15_Z(i) ==
    LET node == paint.scene.children[i]
    IN  IF node.zIndex.set THEN node.zIndex.n ELSE 0

\* node i covers cell c: c is a cell of its run and is not clipped away
C15_Covers(i, c) ==
    LET node == paint.scene.children[i]
        origin == ResolveOrigin(node, paint.scene.container.rect)
    IN  /\ c[2] = origin.y
        /\ origin.x <= c[1] /\ c[1] < origin.x + node.width
        /\ InRect(c, ActiveClip(paint.scene.container))

\* C15: of the absolute nodes that cover a cell of the frame, the cell shows
\* the one that is greatest in the order (zIndex ascending with unset = 0,
\* then document order ascending): a higher zIndex paints over a lower one
\* whatever the document order, and of equal zIndex the later node wins.
C15_TopmostNodeShows ==
    paint.phase = "done" =>
        \A c \in Cells :
            LET cover == {i \in 1..Len(paint.scene.children) : C15_Covers(i, c)}
            IN  IF cover = {} THEN paint.frame[c] = BlankCell
                ELSE \E i \in cover :
                        /\ paint.frame[c].node = i
                        /\ \A j \in cover \ {i} :
                              \/ C15_Z(j) < C15_Z(i)
                              \/ C15_Z(j) = C15_Z(i) /\ j < i

\* an earlier node of higher zIndex shows over a later one, and in the same
\* frame a later node shows over an earlier one of equal zIndex
C15_Witness ==
    /\ paint.phase = "done"
    /\ \E c \in Cells : \E i, j \in 1..Len(paint.scene.children) :
          /\ i < j /\ C15_Covers(i, c) /\ C15_Covers(j, c)
          /\ C15_Z(i) > C15_Z(j)
          /\ paint.frame[c].node = i
    /\ \E c \in Cells : \E i, j \in 1..Len(paint.scene.children) :
          /\ i < j /\ C15_Covers(i, c) /\ C15_Covers(j, c)
          /\ C15_Z(i) = C15_Z(j)
          /\ paint.frame[c].node = j

C16_OnlyLeft(node) == node.left.set /\ ~node.right.set
C16_OnlyRight(node) == node.right.set /\ ~node.left.set
C16_OnlyTop(node) == node.top.set /\ ~node.bottom.set
C16_OnlyBottom(node) == node.bottom.set /\ ~node.top.set

\* the origin the claim gives a node with one offset set on each axis
C16_X(node, cb) ==
    IF C16_OnlyLeft(node) THEN cb.x + node.left.n
    ELSE cb.x + cb.width - node.right.n - node.width

C16_Y(node, cb) ==
    IF C16_OnlyTop(node) THEN cb.y + node.top.n
    ELSE cb.y + cb.height - node.bottom.n - node.height

\* C16: an absolute node with only left set starts at containingBlock.x +
\* left, with only right set at containingBlock.x + containingBlock.width -
\* right - node.width, and likewise for top and bottom; its content is in the
\* frame from exactly that cell on, and it leaves every other cell alone.
C16_OriginFromOffsets ==
    paint.phase = "done" =>
        \A i \in 1..Len(paint.scene.children) :
            LET node == paint.scene.children[i]
                cb == paint.scene.container.rect
                hasX == C16_OnlyLeft(node) \/ C16_OnlyRight(node)
                hasY == C16_OnlyTop(node) \/ C16_OnlyBottom(node)
            IN  /\ \A c \in Cells :
                      paint.frame[c].node = i =>
                          /\ hasX => c[1] = C16_X(node, cb) + paint.frame[c].k
                          /\ hasY => c[2] = C16_Y(node, cb)
                /\ hasX /\ hasY /\ Len(paint.scene.children) = 1
                   /\ ~paint.scene.container.hidden =>
                      \A k \in 0..(node.width - 1) :
                          LET c == <<C16_X(node, cb) + k, C16_Y(node, cb)>>
                          IN  c \in Cells =>
                                  paint.frame[c] = [node |-> i, k |-> k]

\* a node with only right and only bottom set, shown whole in the frame away
\* from the first row and the first column
C16_Witness ==
    /\ paint.phase = "done"
    /\ Len(paint.scene.children) = 1
    /\ LET node == paint.scene.children[1]
           cb == paint.scene.container.rect
       IN  /\ C16_OnlyRight(node) /\ C16_OnlyBottom(node)
           /\ node.width = 2
           /\ C16_X(node, cb) > 0 /\ C16_Y(node, cb) > 0
           /\ \A k \in 0..1 :
                 /\ <<C16_X(node, cb) + k, C16_Y(node, cb)>> \in Cells
                 /\ paint.frame[<<C16_X(node, cb) + k, C16_Y(node, cb)>>]
                        = [node |-> 1, k |-> k]
           /\ \A c \in Cells :
                 c[2] < C16_Y(node, cb) \/ c[1] < C16_X(node, cb) =>
                     paint.frame[c] = BlankCell

\* the cell is inside the rectangle of the overflow-hidden ancestor
C17_InsideClip(c, rect) ==
    /\ rect.x <= c[1] /\ c[1] <= rect.x + rect.width - 1
    /\ rect.y <= c[2] /\ c[2] <= rect.y + rect.height - 1

\* C17: painting an absolute text run under an overflow-hidden ancestor
\* writes a cell of the frame if and only if it is a cell of the run inside
\* the ancestor's clip rectangle: a run wholly outside writes nothing, a run
\* across the boundary writes exactly its cells inside, and every placement
\* is painted.
C17_RunClippedExactly ==
    [][/\ paint.phase = "painting" /\ paint.next <= Len(paint.list)
          /\ paint.scene.container.hidden =>
              /\ ENABLED PaintNextEntry
              /\ paint'.next = paint.next + 1 =>
                    LET entry == paint.list[paint.next]
                    IN  \A c \in Cells :
                            IF /\ c[2] = entry.y
                               /\ c[1] - entry.x \in 0..(entry.width - 1)
                               /\ C17_InsideClip(c, paint.scene.container.rect)
                            THEN paint'.frame[c] = [node |-> entry.sourceOrder,
                                                    k |-> c[1] - entry.x]
                            ELSE paint'.frame[c] = paint.frame[c]]_vars

\* a run across the edge of the clip: one of its cells is inside and shown,
\* another lies in the frame but outside the clip and stays blank
C17_Witness ==
    /\ paint.phase = "done"
    /\ paint.scene.container.hidden
    /\ Len(paint.scene.children) = 1
    /\ LET entry == paint.list[1]
       IN  \E c, d \in Cells :
              /\ c[2] = entry.y /\ d[2] = entry.y
              /\ c[1] - entry.x \in 0..(entry.width - 1)
              /\ d[1] - entry.x \in 0..(entry.width - 1)
              /\ C17_InsideClip(c, paint.scene.container.rect)
              /\ ~C17_InsideClip(d, paint.scene.container.rect)
              /\ paint.frame[c].node = 1
              /\ paint.frame[d] = BlankCell

====
